---- MODULE Spec2Model ----
(***************************************************************************)
(* Placement engine of farbrain: idea submission (create_idea), the        *)
(* background full re-fit (full_recluster_session / update_cluster_labels),*)
(* forced clustering and bulk creation (debug endpoints), idea deletion    *)
(* and the per-session ClusteringService cache.                            *)
(*                                                                         *)
(* Scheduling model: the backend is one asyncio event loop.  A coroutine   *)
(* runs without interruption between two awaits, so one action of this     *)
(* module is one resumption of a coroutine: the effect of the operation it *)
(* awaited (a database read or commit, a broadcast) followed by its        *)
(* synchronous code up to the next await.  fit_transform, transform and    *)
(* predict_cluster are synchronous calls.  A task made by                  *)
(* asyncio.create_task takes its first step at any later time.             *)
(*                                                                         *)
(* The settings min_ideas_for_clustering and clustering_interval (both 10  *)
(* by default) and the literal minimum 10 of the debug endpoints are       *)
(* instantiated with small values so that threshold crossings and          *)
(* periodic re-fits are reached with a handful of ideas.                   *)
(***************************************************************************)
EXTENDS Integers, FiniteSets, Sequences, TLC

(* ---- settings (backend/app/core/config.py) ---- *)
min_ideas_for_clustering == 3
clustering_interval == 2
max_clusters == 20
MinClusters == 5
DebugMinIdeas == 3

(* ---- bounds of the model ---- *)
MaxIdeas == 5
MaxReqs == 1
MaxTasks == 2
MaxSvc == 2
MaxRestarts == 1
MaxForce == 2
MaxDeletes == 2
MaxBulk == 1
MaxFailures == 1
MaxDisturbances == 3
MaxActive == 2

Sessions == {"s1", "s2"}
(* the sessions the single-session specification works on *)
MainSessions == {"s1"}
Reqs == 1..MaxReqs
Tasks == 1..MaxTasks
SvcIds == 1..MaxSvc

(* Python None in an integer-valued field (cluster_id, fixed_cluster_count) *)
None == 0 - 1

(* (np.random.uniform(-10, 10), np.random.uniform(-10, 10)): representative *)
(* draws of the sampler                                                     *)
RandomPoints == {<<0 - 10, 9>>, <<4, 0 - 7>>}

InSquare(x, y) == x >= 0 - 10 /\ x <= 10 /\ y >= 0 - 10 /\ y <= 10

Max(a, b) == IF a >= b THEN a ELSE b
Min(a, b) == IF a <= b THEN a ELSE b

(* math.ceil(n ** (1/3)) *)
CeilCbrt(n) == CHOOSE k \in 0..n : k * k * k >= n /\ (k = 0 \/ (k - 1) * (k - 1) * (k - 1) < n)

(* the cluster count without the cap at max_clusters *)
_calculate_n_clusters_uncapped(n_ideas, fixed_cluster_count, threshold, cap) ==
  IF fixed_cluster_count # None
    THEN Max(2, Min(fixed_cluster_count, n_ideas))
    ELSE IF n_ideas < threshold
      THEN MinClusters
      ELSE Max(MinClusters, CeilCbrt(n_ideas))

(* ClusteringService._calculate_n_clusters under the settings            *)
(* min_ideas_for_clustering = threshold and max_clusters = cap           *)
_calculate_n_clusters_with(n_ideas, fixed_cluster_count, threshold, cap) ==
  IF fixed_cluster_count # None
    THEN Max(2, Min(fixed_cluster_count, n_ideas))
    ELSE IF n_ideas < threshold
      THEN MinClusters
      ELSE Min(Max(MinClusters, CeilCbrt(n_ideas)), cap)

_calculate_n_clusters(n_ideas, fixed_cluster_count) ==
  _calculate_n_clusters_with(n_ideas, fixed_cluster_count, min_ideas_for_clustering,
                             max_clusters)

(* UMAP and k-means are black boxes that are deterministic for fixed input *)
(* (random_state=42): a fit is named by g, the set of ideas it was given,  *)
(* and places idea i (its embedding) as a function of g and i.  The 2D     *)
(* embedding of UMAP is not confined to the square of the sampler.         *)
UmapX(g, i) == ((7 * Cardinality(g) + 5 * i) % 25) - 12
UmapY(g, i) == ((3 * Cardinality(g) + 11 * i) % 25) - 12
KMeansLabel(g, i, k) == (Cardinality(g) + i) % k

(* a model slot of a ClusteringService: fit = {} is Python None; otherwise *)
(* the object created by fit g, fitted or not (its fit raised)            *)
NoModel == [fit |-> {}, fitted |-> FALSE, n_clusters |-> 0]
EmptyService == [umap_model |-> NoModel, kmeans_model |-> NoModel]
IsNone(m) == m.fit = {}

VARIABLES
  ideas,                      \* Idea rows of the database
  last_clustered_idea_count,  \* Session.last_clustered_idea_count, per session
  clusters,                   \* Cluster rows, per session
  _clustering_services,       \* session id -> ClusteringService object (0: no entry)
  services,                   \* the ClusteringService objects
  _recluster_in_progress,     \* set of session ids
  _clustering_locks,          \* session id -> bool (debug.py)
  req,                        \* create_idea coroutines
  task,                       \* full_recluster_session coroutines
  force,                      \* force_cluster coroutine, per session (ends in its first step)
  bulk,                       \* create_bulk_ideas coroutine, per session
  next_id,                    \* next idea id
  obs,                        \* what the latest step returned to its caller and broadcast
  hist,                       \* history: restarts, forced clusterings, deletions, fit failures
  scored,                     \* novelty scoring: the Idea rows of one session, in insertion order
  score_call,                 \* novelty scoring: the latest call of NoveltyScorer.calculate_score
  n_clusters_call,            \* the latest call of ClusteringService._calculate_n_clusters
  active_connections,         \* ConnectionManager.active_connections: room -> list of connections
  conn_state,                 \* websocket connections: new, open, broken (peer gone) or closed
  broadcast,                  \* the broadcast_to_session coroutine
  delivered,                  \* the messages the connections received
  users,                      \* User rows: idea_count and total_score of each user
  idea_rows,                  \* Idea rows as the user counters see them: id, user_id, novelty_score
  calls                       \* create_idea and delete_idea coroutines working on the user counters

vars == <<ideas, last_clustered_idea_count, clusters, _clustering_services, services,
          _recluster_in_progress, _clustering_locks, req, task, force, bulk, next_id,
          obs, hist>>

(* the state of the components that are specified on their own: novelty *)
(* scoring, the cluster count heuristic, the websocket manager           *)
score_vars == <<scored, score_call>>
ws_vars == <<active_connections, conn_state, broadcast, delivered>>
user_vars == <<users, idea_rows, calls>>
side == <<score_vars, n_clusters_call, ws_vars, user_vars>>
not_score == <<vars, n_clusters_call, ws_vars, user_vars>>
not_clusters == <<vars, score_vars, ws_vars, user_vars>>
not_ws == <<vars, score_vars, n_clusters_call, user_vars>>
not_users == <<vars, score_vars, n_clusters_call, ws_vars>>

UserCalls == 1..2
NoUser == [idea_count |-> 0, total_score |-> 0]
IdleCall == [pc |-> "idle", user_id |-> "none", user |-> NoUser, novelty_score |-> 0]

Rooms == {"s1", "s2"}
Conns == {"a", "b", "c", "x"}
RoomOf(c) == IF c = "x" THEN "s2" ELSE "s1"

IdleBroadcast == [pc |-> "idle", room |-> "s1", msg |-> 0, i |-> 0, current |-> "none",
                  attached |-> FALSE, disconnected |-> <<>>, stayed |-> {}]

NoClustersCall == [n_ideas |-> 0, fixed_cluster_count |-> None, threshold |-> 0, cap |-> 0,
                   n_clusters |-> 0]

NoCall == [transform |-> "none", n |-> 0, score |-> 0]

IdleReq == [pc |-> "idle", session |-> "s1", existing |-> {}, svc |-> 0, id |-> 0,
            x |-> 0, y |-> 0, cluster_id |-> None, fit |-> {}, branch |-> "none",
            need_cluster_update |-> FALSE, coordinates_recalculated |-> FALSE]

IdleTask == [pc |-> "idle", session |-> "s1", existing |-> {}, rows |-> {}, svc |-> 0,
             n_at_schedule |-> 0, changed |-> FALSE, last_at_start |-> 0]

IdleForce == [pc |-> "idle", existing |-> {}, svc |-> 0]

IdleBulk == [pc |-> "idle", existing |-> {}]

(* the outcome of the coroutine that ended in the latest step, and the *)
(* messages the step handed to manager.broadcast_to_session            *)
Quiet == [op |-> "none", session |-> "s1", result |-> "none", sent |-> {},
          branch |-> "none", idea |-> 0, x |-> 0, y |-> 0, total |-> 0, since |-> 0,
          scheduled |-> FALSE, fit |-> {}, committed |-> FALSE, regenerated |-> FALSE,
          n_at_schedule |-> 0, changed |-> FALSE, last_at_start |-> 0]

SessionIdeas(s) == {i \in ideas : i.session = s}
IdeaCount(s) == Cardinality(SessionIdeas(s))
IdsOf(rows) == {i.id : i \in rows}

Init ==
  /\ ideas = {}
  /\ last_clustered_idea_count = [s \in Sessions |-> 0]
  /\ clusters = [s \in Sessions |-> {}]
  /\ _clustering_services = [s \in Sessions |-> 0]
  /\ services = [k \in SvcIds |-> EmptyService]
  /\ _recluster_in_progress = {}
  /\ _clustering_locks = [s \in Sessions |-> FALSE]
  /\ req = [r \in Reqs |-> IdleReq]
  /\ task = [t \in Tasks |-> IdleTask]
  /\ force = [s \in Sessions |-> IdleForce]
  /\ bulk = [s \in Sessions |-> IdleBulk]
  /\ next_id = 1
  /\ obs = Quiet
  /\ hist = [restarts |-> 0, forced |-> 0, deletes |-> 0, failures |-> 0, bulks |-> 0,
             deleted |-> {}, reached |-> {}, refit_failed |-> {}]
  /\ scored = <<>>
  /\ score_call = NoCall
  /\ n_clusters_call = NoClustersCall
  /\ active_connections = [room \in Rooms |-> <<>>]
  /\ conn_state = [c \in Conns |-> "new"]
  /\ broadcast = IdleBroadcast
  /\ delivered = {}
  /\ users = [u \in {"u1", "u2"} |-> NoUser]
  /\ idea_rows = {}
  /\ calls = [k \in UserCalls |-> IdleCall]

(* coroutines in flight; a bound on how many requests the server handles at once *)
Active ==
  Cardinality({r \in Reqs : req[r].pc # "idle"}) + Cardinality({t \in Tasks : task[t].pc # "idle"})
    + Cardinality({s \in Sessions : force[s].pc # "idle"})
    + Cardinality({s \in Sessions : bulk[s].pc # "idle"})
Accepting == Active < MaxActive

(* ------------------------------------------------------------------ *)
(* ClusteringService cache (services/clustering.py)                    *)
(* ------------------------------------------------------------------ *)

Refs(d, rq, tk, fc) ==
  ({d[s] : s \in Sessions} \cup {rq[r].svc : r \in Reqs} \cup {tk[t].svc : t \in Tasks}
     \cup {fc[s].svc : s \in Sessions}) \ {0}

Referenced == Refs(_clustering_services, req, task, force)

(* objects no coroutine and no cache entry refers to are garbage *)
Sweep(svcs, refs) == [k \in SvcIds |-> IF k \in refs THEN svcs[k] ELSE EmptyService]

CanAllocate == \E k \in SvcIds : k \notin Referenced
FreshSvc == CHOOSE k \in SvcIds : k \notin Referenced /\ \A j \in SvcIds : j \notin Referenced => k <= j

(* get_clustering_service: the cached object, or a new one put in the cache *)
HasService(s) == _clustering_services[s] # 0
get_clustering_service(s) == IF HasService(s) THEN _clustering_services[s] ELSE FreshSvc
CacheAfterGet(s) == [_clustering_services EXCEPT ![s] = get_clustering_service(s)]
ServicesAfterGet(s) ==
  IF HasService(s) THEN services ELSE [services EXCEPT ![FreshSvc] = EmptyService]

(* ClusteringService.fit_transform on object k for n_ideas >= the threshold:   *)
(* the UMAP object is stored before it is fitted, the KMeans object before     *)
(* fit_predict; an exception leaves what was stored so far.                    *)
FitOutcomes == {"ok", "umap_raises", "kmeans_raises"}

fit_transform(svcs, k, g, n_ideas, out) ==
  IF n_ideas < min_ideas_for_clustering
    THEN svcs
    ELSE IF out = "umap_raises"
      THEN [svcs EXCEPT ![k].umap_model = [fit |-> g, fitted |-> FALSE, n_clusters |-> 0]]
      ELSE [svcs EXCEPT
              ![k].umap_model = [fit |-> g, fitted |-> TRUE, n_clusters |-> 0],
              ![k].kmeans_model = [fit |-> g, fitted |-> (out = "ok"),
                                   n_clusters |-> _calculate_n_clusters(n_ideas, None)]]

(* the label fit_transform over g (at least the threshold many ideas) gives idea i *)
FitLabel(g, i) == KMeansLabel(g, i, _calculate_n_clusters(Cardinality(g), None))

(* ClusteringService.transform / predict_cluster on a service object *)
TransformRaises(svc) == ~IsNone(svc.umap_model) /\ ~svc.umap_model.fitted
PredictRaises(svc) == ~IsNone(svc.kmeans_model) /\ ~svc.kmeans_model.fitted
predict_cluster(svc, i) ==
  IF IsNone(svc.kmeans_model) THEN 0
  ELSE KMeansLabel(svc.kmeans_model.fit, i, svc.kmeans_model.n_clusters)

(* the history counts the events that disturb the regular flow; their total *)
(* number in one behaviour is bounded, a bulk creation counting twice       *)
Disturbances ==
  hist.restarts + hist.deletes + hist.failures + hist.forced + 2 * hist.bulks
Calm == Disturbances < MaxDisturbances

FailureAllowed(out) == out = "ok" \/ (Calm /\ hist.failures < MaxFailures)
CountFailure(h, out) ==
  IF out = "ok" THEN h ELSE [h EXCEPT !.failures = h.failures + 1]

MarkReached(h, rows) ==
  [h EXCEPT !.reached = h.reached \cup
     {s \in Sessions : Cardinality({i \in rows : i.session = s}) >= min_ideas_for_clustering}]

(* re-fit tasks of session s that are scheduled or running see the idea set change *)
MarkChanged(tk, s) ==
  [t \in Tasks |-> IF tk[t].session = s /\ tk[t].pc # "idle"
                    THEN [tk[t] EXCEPT !.changed = TRUE] ELSE tk[t]]

(* ------------------------------------------------------------------ *)
(* create_idea (api/ideas.py)                                          *)
(* ------------------------------------------------------------------ *)

Failed(r) ==
  [Quiet EXCEPT !.op = "create_idea", !.session = req[r].session, !.result = "error"]

(* result of the select of line 241, then get_clustering_service (248) *)
SubmitStart(r, s) ==
  /\ req[r].pc = "idle"
  /\ Accepting
  /\ next_id <= MaxIdeas
  /\ HasService(s) \/ CanAllocate
  /\ req' = [req EXCEPT ![r] = [IdleReq EXCEPT !.pc = "embed", !.session = s,
                                   !.existing = IdsOf(SessionIdeas(s)),
                                   !.svc = get_clustering_service(s)]]
  /\ _clustering_services' = CacheAfterGet(s)
  /\ services' = ServicesAfterGet(s)
  /\ obs' = Quiet
  /\ UNCHANGED <<ideas, last_clustered_idea_count, clusters, _recluster_in_progress,
                 _clustering_locks, task, force, bulk, next_id, hist>>

(* lines 263-343 after the embedding returned: Step 5, assign coordinates *)
(* the bootstrap placement with the temporary cluster 0 of the fallback path *)
PlaceBootstrapCluster0(r) ==
  /\ Cardinality(req[r].existing) < min_ideas_for_clustering - 1
  /\ \E p \in RandomPoints :
       req' = [req EXCEPT ![r].pc = "commit", ![r].id = next_id, ![r].branch = "bootstrap",
                          ![r].x = p[1], ![r].y = p[2], ![r].cluster_id = 0]
  /\ next_id' = next_id + 1
  /\ obs' = Quiet
  /\ UNCHANGED <<services, hist>>

PlaceBootstrap(r) ==
  /\ Cardinality(req[r].existing) < min_ideas_for_clustering - 1
  /\ \E p \in RandomPoints :
       req' = [req EXCEPT ![r].pc = "commit", ![r].id = next_id, ![r].branch = "bootstrap",
                          ![r].x = p[1], ![r].y = p[2], ![r].cluster_id = None]
  /\ next_id' = next_id + 1
  /\ obs' = Quiet
  /\ UNCHANGED <<services, hist>>

PlaceFirstFit(r) ==
  /\ Cardinality(req[r].existing) = min_ideas_for_clustering - 1
  /\ \E out \in FitOutcomes :
       LET g == req[r].existing \cup {next_id}
           fitted == fit_transform(services, req[r].svc, g, Cardinality(g), out)
       IN /\ FailureAllowed(out)
          /\ hist' = CountFailure(hist, out)
          /\ IF out = "ok"
               THEN /\ req' = [req EXCEPT ![r].pc = "commit", ![r].id = next_id,
                                          ![r].branch = "first", ![r].fit = g,
                                          ![r].x = UmapX(g, next_id),
                                          ![r].y = UmapY(g, next_id),
                                          ![r].cluster_id = FitLabel(g, next_id),
                                          ![r].coordinates_recalculated = TRUE,
                                          ![r].need_cluster_update = TRUE]
                    /\ next_id' = next_id + 1
                    /\ services' = fitted
                    /\ obs' = Quiet
               ELSE /\ req' = [req EXCEPT ![r] = IdleReq]
                    /\ next_id' = next_id
                    /\ services' = Sweep(fitted, Refs(_clustering_services, req', task, force))
                    /\ obs' = [Failed(r) EXCEPT !.branch = "first", !.fit = g]

(* the fallback placement without marking the coordinates as recalculated *)
PlaceStaleUnflagged(r) ==
  /\ Cardinality(req[r].existing) > min_ideas_for_clustering - 1
  /\ IsNone(services[req[r].svc].umap_model)
  /\ \E p \in RandomPoints :
       req' = [req EXCEPT ![r].pc = "commit", ![r].id = next_id, ![r].branch = "stale",
                          ![r].x = p[1], ![r].y = p[2], ![r].cluster_id = 0]
  /\ next_id' = next_id + 1
  /\ obs' = Quiet
  /\ UNCHANGED <<services, hist>>

PlaceStale(r) ==
  /\ Cardinality(req[r].existing) > min_ideas_for_clustering - 1
  /\ IsNone(services[req[r].svc].umap_model)
  /\ \E p \in RandomPoints :
       req' = [req EXCEPT ![r].pc = "commit", ![r].id = next_id, ![r].branch = "stale",
                          ![r].x = p[1], ![r].y = p[2], ![r].cluster_id = 0,
                          ![r].coordinates_recalculated = TRUE]
  /\ next_id' = next_id + 1
  /\ obs' = Quiet
  /\ UNCHANGED <<services, hist>>

PlaceTransform(r) ==
  LET svc == services[req[r].svc] IN
  /\ Cardinality(req[r].existing) > min_ideas_for_clustering - 1
  /\ ~IsNone(svc.umap_model)
  /\ IF TransformRaises(svc) \/ PredictRaises(svc)
       THEN /\ req' = [req EXCEPT ![r] = IdleReq]
            /\ next_id' = next_id
            /\ services' = Sweep(services, Refs(_clustering_services, req', task, force))
            /\ obs' = [Failed(r) EXCEPT !.branch = "transform"]
       ELSE /\ req' = [req EXCEPT ![r].pc = "commit", ![r].id = next_id,
                                  ![r].branch = "transform", ![r].fit = svc.umap_model.fit,
                                  ![r].x = UmapX(svc.umap_model.fit, next_id),
                                  ![r].y = UmapY(svc.umap_model.fit, next_id),
                                  ![r].cluster_id = predict_cluster(svc, next_id)]
            /\ next_id' = next_id + 1
            /\ services' = services
            /\ obs' = Quiet
  /\ UNCHANGED hist

SubmitPlace(r) ==
  /\ req[r].pc = "embed"
  /\ PlaceBootstrap(r) \/ PlaceFirstFit(r) \/ PlaceStale(r) \/ PlaceTransform(r)
  /\ UNCHANGED <<ideas, last_clustered_idea_count, clusters, _clustering_services,
                 _recluster_in_progress, _clustering_locks, task, force, bulk>>

(* Cluster rows: the hull is kept as the set of member points it is computed *)
(* from; with at most cluster_sample_size members the sample is all members  *)
Members(rows, c) == {i \in rows : i.cluster_id = c}
ClusterIds(rows) == {i.cluster_id : i \in rows} \ {None}
ClusterRow(c, rows, label) ==
  [id |-> c, idea_count |-> Cardinality(Members(rows, c)), label |-> label,
   hull |-> {<<i.x, i.y>> : i \in Members(rows, c)},
   sample_idea_ids |-> IdsOf(Members(rows, c))]
RowOf(crows, c) == CHOOSE row \in crows : row.id = c
HasRow(crows, c) == \E row \in crows : row.id = c

(* lines 365-407: existing rows keep label and samples, new rows get the simple label *)
UpsertKeepLabel(crows, rows) ==
  {row \in crows : row.id \notin ClusterIds(rows)} \cup
  {IF HasRow(crows, c)
     THEN [RowOf(crows, c) EXCEPT !.idea_count = Cardinality(Members(rows, c)),
                                  !.hull = {<<i.x, i.y>> : i \in Members(rows, c)}]
     ELSE ClusterRow(c, rows, "simple") : c \in ClusterIds(rows)}

(* lines 606-642 and create_or_update_clusters: every field of the row is rewritten *)
UpsertAll(crows, rows, label) ==
  {row \in crows : row.id \notin ClusterIds(rows)} \cup
  {ClusterRow(c, rows, label) : c \in ClusterIds(rows)}

NewIdea(r) ==
  [id |-> req[r].id, session |-> req[r].session, x |-> req[r].x, y |-> req[r].y,
   cluster_id |-> req[r].cluster_id, fit |-> req[r].fit]

(* rows of `rows` with the ideas in ids placed by fit g *)
Replaced(rows, s, ids, g) ==
  {IF i.session = s /\ i.id \in ids
     THEN [i EXCEPT !.x = UmapX(g, i.id), !.y = UmapY(g, i.id),
                    !.cluster_id = FitLabel(g, i.id), !.fit = g]
     ELSE i : i \in rows}

(* a flush that writes the placements of the model to every row read at line 241 *)
WrittenReplacingAll(r) ==
  Replaced(ideas, req[r].session, req[r].existing, req[r].fit) \cup {NewIdea(r)}

(* the Idea rows after the flush of line 351: the new row, and on the first-fit *)
(* path the rows assigned at lines 293-297                                      *)
Written(r) ==
  (IF req[r].branch = "first"
     THEN Replaced(ideas, req[r].session, req[r].existing, req[r].fit)
     ELSE ideas) \cup {NewIdea(r)}

(* the commit of line 351.  On the first-fit path the flush also updates the   *)
(* rows read at line 241; an UPDATE of a row deleted meanwhile fails the flush *)
(* (StaleDataError) and the request ends with an error.                        *)
SubmitCommit(r) ==
  LET s == req[r].session
      first == req[r].branch = "first"
      stale_rows == first /\ ~(req[r].existing \subseteq IdsOf(SessionIdeas(s)))
      written == Written(r)
  IN /\ req[r].pc = "commit"
     /\ IF stale_rows
          THEN /\ req' = [req EXCEPT ![r] = IdleReq]
               /\ services' = Sweep(services, Refs(_clustering_services, req', task, force))
               /\ obs' = [Failed(r) EXCEPT !.branch = req[r].branch]
               /\ UNCHANGED <<ideas, task, hist>>
          ELSE /\ ideas' = written
               /\ req' = [req EXCEPT ![r].pc = IF req[r].need_cluster_update
                                                 THEN "clusters" ELSE "broadcast"]
               /\ task' = MarkChanged(task, s)
               /\ hist' = MarkReached(hist, written)
               /\ services' = services
               /\ obs' = Quiet
     /\ UNCHANGED <<last_clustered_idea_count, clusters, _clustering_services,
                    _recluster_in_progress, _clustering_locks, force, bulk, next_id>>

(* lines 356-410: select of all ideas, cluster rows, commit *)
SubmitClusters(r) ==
  LET s == req[r].session IN
  /\ req[r].pc = "clusters"
  /\ clusters' = [clusters EXCEPT ![s] = UpsertKeepLabel(clusters[s], SessionIdeas(s))]
  /\ req' = [req EXCEPT ![r].pc = "broadcast"]
  /\ obs' = Quiet
  /\ UNCHANGED <<ideas, last_clustered_idea_count, _clustering_services, services,
                 _recluster_in_progress, _clustering_locks, task, force, bulk, next_id,
                 hist>>

(* lines 412-453: send_idea_created, then the count and the session are read *)
(* again and asyncio.create_task(full_recluster_session(...)) is called      *)
FreeTask(t) == task[t].pc = "idle"
NextFreeTask == CHOOSE t \in Tasks : FreeTask(t) /\ \A u \in Tasks : FreeTask(u) => t <= u

(* the re-check with a strict comparison against the interval *)
should_recluster_strict(r) ==
  LET s == req[r].session
      actual_total == IdeaCount(s)
      ideas_since_last_cluster == actual_total - last_clustered_idea_count[s]
  IN /\ actual_total >= min_ideas_for_clustering
     /\ \/ ideas_since_last_cluster > clustering_interval
        \/ (req[r].coordinates_recalculated /\ IsNone(services[req[r].svc].umap_model))

should_recluster(r) ==
  LET s == req[r].session
      actual_total == IdeaCount(s)
      ideas_since_last_cluster == actual_total - last_clustered_idea_count[s]
  IN /\ actual_total >= min_ideas_for_clustering
     /\ \/ ideas_since_last_cluster >= clustering_interval
        \/ (req[r].coordinates_recalculated /\ IsNone(services[req[r].svc].umap_model))

IdeaCreated(r) ==
  [type |-> "idea_created", session |-> req[r].session, idea |-> req[r].id,
   coordinates_recalculated |-> req[r].coordinates_recalculated]

SubmitRecheck(r) ==
  LET s == req[r].session
      go == should_recluster(r)
  IN /\ req[r].pc = "broadcast"
     /\ go => \E t \in Tasks : FreeTask(t)
     /\ obs' = [Quiet EXCEPT !.op = "create_idea", !.session = s, !.result = "created",
                            !.sent = {IdeaCreated(r)}, !.branch = req[r].branch,
                            !.idea = req[r].id, !.x = req[r].x, !.y = req[r].y,
                            !.total = IdeaCount(s),
                            !.since = IdeaCount(s) - last_clustered_idea_count[s],
                            !.scheduled = go, !.fit = req[r].fit]
     /\ req' = [req EXCEPT ![r] = IdleReq]
     /\ task' = IF go
                  THEN [task EXCEPT ![NextFreeTask] =
                          [IdleTask EXCEPT !.pc = "scheduled", !.session = s,
                                           !.n_at_schedule = IdeaCount(s)]]
                  ELSE task
     /\ services' = Sweep(services, Refs(_clustering_services, req', task', force))
     /\ UNCHANGED <<ideas, last_clustered_idea_count, clusters, _clustering_services,
                    _recluster_in_progress, _clustering_locks, force, bulk, next_id,
                    hist>>

(* ------------------------------------------------------------------ *)
(* full_recluster_session / update_cluster_labels (api/ideas.py)       *)
(* ------------------------------------------------------------------ *)

(* a finally that leaves the session in the in-progress set *)
finally_skipped(s) == _recluster_in_progress

(* lines 542-544: the finally of full_recluster_session *)
finally_discard(s) == _recluster_in_progress \ {s}

Ended(t, result) ==
  [Quiet EXCEPT !.op = "full_recluster_session", !.session = task[t].session,
                !.result = result, !.n_at_schedule = task[t].n_at_schedule,
                !.changed = task[t].changed, !.last_at_start = task[t].last_at_start]

(* full_recluster_session without the test of _recluster_in_progress *)
RefitStartUnguarded(t) ==
  /\ task[t].pc = "scheduled"
  /\ _recluster_in_progress' = _recluster_in_progress \cup {task[t].session}
  /\ task' = [task EXCEPT ![t].pc = "select"]
  /\ obs' = Quiet
  /\ UNCHANGED <<ideas, last_clustered_idea_count, clusters, _clustering_services, services,
                 _clustering_locks, req, force, bulk, next_id, hist>>

(* full_recluster_session with one in-progress flag for all sessions *)
RefitStartGlobalFlag(t) ==
  LET s == task[t].session IN
  /\ task[t].pc = "scheduled"
  /\ IF _recluster_in_progress # {}
       THEN /\ task' = [task EXCEPT ![t] = IdleTask]
            /\ obs' = Ended(t, "skipped")
            /\ UNCHANGED _recluster_in_progress
       ELSE /\ _recluster_in_progress' = _recluster_in_progress \cup {s}
            /\ task' = [task EXCEPT ![t].pc = "select",
                                    ![t].last_at_start = last_clustered_idea_count[s]]
            /\ obs' = Quiet
  /\ UNCHANGED <<ideas, last_clustered_idea_count, clusters, _clustering_services, services,
                 _clustering_locks, req, force, bulk, next_id, hist>>

(* lines 476-481: the first resumption of the task created by create_task *)
RefitStart(t) ==
  LET s == task[t].session IN
  /\ task[t].pc = "scheduled"
  /\ IF s \in _recluster_in_progress
       THEN /\ task' = [task EXCEPT ![t] = IdleTask]
            /\ obs' = Ended(t, "skipped")
            /\ UNCHANGED _recluster_in_progress
       ELSE /\ _recluster_in_progress' = _recluster_in_progress \cup {s}
            /\ task' = [task EXCEPT ![t].pc = "select",
                                    ![t].last_at_start = last_clustered_idea_count[s]]
            /\ obs' = Quiet
  /\ UNCHANGED <<ideas, last_clustered_idea_count, clusters, _clustering_services, services,
                 _clustering_locks, req, force, bulk, next_id, hist>>

(* lines 500-531: the ideas read, the threshold test, get_clustering_service, *)
(* fit_transform and the assignments to the loaded rows, up to the commit     *)
RefitFit(t) ==
  LET s == task[t].session
      rows == SessionIdeas(s)
      n == Cardinality(rows)
  IN /\ task[t].pc = "select"
     /\ IF n < min_ideas_for_clustering
          THEN /\ task' = [task EXCEPT ![t] = IdleTask]
               /\ _recluster_in_progress' = finally_discard(s)
               /\ obs' = Ended(t, "too_few")
               /\ UNCHANGED <<_clustering_services, services, hist>>
          ELSE /\ HasService(s) \/ CanAllocate
               /\ \E out \in FitOutcomes :
                    LET g == IdsOf(rows)
                        k == get_clustering_service(s)
                        fitted == fit_transform(ServicesAfterGet(s), k, g, n, out)
                    IN /\ FailureAllowed(out)
                       /\ hist' = IF out = "ok" THEN hist
                                  ELSE [CountFailure(hist, out) EXCEPT
                                          !.refit_failed = hist.refit_failed \cup {s}]
                       /\ _clustering_services' = CacheAfterGet(s)
                       /\ services' = fitted
                       /\ IF out = "ok"
                            THEN /\ task' = [task EXCEPT ![t].pc = "commit", ![t].svc = k,
                                                         ![t].existing = g]
                                 /\ obs' = Quiet
                                 /\ UNCHANGED _recluster_in_progress
                            ELSE /\ task' = [task EXCEPT ![t] = IdleTask]
                                 /\ _recluster_in_progress' = finally_discard(s)
                                 /\ obs' = [Ended(t, "fit_failed") EXCEPT !.fit = g]
     /\ UNCHANGED <<ideas, last_clustered_idea_count, clusters, _clustering_locks, req,
                    force, bulk, next_id>>

(* a re-fit that stores the number of ideas added since the last fit as the *)
(* watermark                                                               *)
RefitCommitDelta(t) ==
  LET s == task[t].session
      n == Cardinality(task[t].existing)
      ok == task[t].existing \subseteq IdsOf(SessionIdeas(s))
  IN /\ task[t].pc = "commit"
     /\ IF ok
          THEN /\ ideas' = Replaced(ideas, s, task[t].existing, task[t].existing)
               /\ last_clustered_idea_count' =
                    [last_clustered_idea_count EXCEPT ![s] = n - last_clustered_idea_count[s]]
               /\ task' = [task EXCEPT ![t].pc = "labels"]
               /\ obs' = [Ended(t, "committed") EXCEPT !.committed = TRUE, !.total = n,
                                                       !.fit = task[t].existing]
               /\ UNCHANGED <<_recluster_in_progress, services>>
          ELSE /\ task' = [task EXCEPT ![t] = IdleTask]
               /\ _recluster_in_progress' = finally_discard(s)
               /\ services' = Sweep(services, Refs(_clustering_services, req, task', force))
               /\ obs' = [Ended(t, "commit_failed") EXCEPT !.fit = task[t].existing]
               /\ UNCHANGED <<ideas, last_clustered_idea_count>>
     /\ UNCHANGED <<clusters, _clustering_services, _clustering_locks, req, force, bulk,
                    next_id, hist>>

(* a re-fit that stores the watermark on its own, before the commit of the *)
(* coordinates is known to succeed                                         *)
RefitCommitWatermarkFirst(t) ==
  LET s == task[t].session
      n == Cardinality(task[t].existing)
      ok == task[t].existing \subseteq IdsOf(SessionIdeas(s))
  IN /\ task[t].pc = "commit"
     /\ last_clustered_idea_count' = [last_clustered_idea_count EXCEPT ![s] = n]
     /\ IF ok
          THEN /\ ideas' = Replaced(ideas, s, task[t].existing, task[t].existing)
               /\ task' = [task EXCEPT ![t].pc = "labels"]
               /\ obs' = [Ended(t, "committed") EXCEPT !.committed = TRUE, !.total = n,
                                                       !.fit = task[t].existing]
               /\ UNCHANGED <<_recluster_in_progress, services>>
          ELSE /\ task' = [task EXCEPT ![t] = IdleTask]
               /\ _recluster_in_progress' = finally_discard(s)
               /\ services' = Sweep(services, Refs(_clustering_services, req, task', force))
               /\ obs' = [Ended(t, "commit_failed") EXCEPT !.fit = task[t].existing]
               /\ UNCHANGED ideas
     /\ UNCHANGED <<clusters, _clustering_services, _clustering_locks, req, force, bulk,
                    next_id, hist>>

(* the commit of line 531: coordinates, cluster ids and                    *)
(* last_clustered_idea_count = len(ideas) are written together; the UPDATE *)
(* of a row deleted since line 500 fails the commit                        *)
RefitCommit(t) ==
  LET s == task[t].session
      n == Cardinality(task[t].existing)
      ok == task[t].existing \subseteq IdsOf(SessionIdeas(s))
  IN /\ task[t].pc = "commit"
     /\ IF ok
          THEN /\ ideas' = Replaced(ideas, s, task[t].existing, task[t].existing)
               /\ last_clustered_idea_count' = [last_clustered_idea_count EXCEPT ![s] = n]
               /\ task' = [task EXCEPT ![t].pc = "labels"]
               /\ obs' = [Ended(t, "committed") EXCEPT !.committed = TRUE, !.total = n,
                                                       !.fit = task[t].existing]
               /\ UNCHANGED <<_recluster_in_progress, services>>
          ELSE /\ task' = [task EXCEPT ![t] = IdleTask]
               /\ _recluster_in_progress' = finally_discard(s)
               /\ services' = Sweep(services, Refs(_clustering_services, req, task', force))
               /\ obs' = [Ended(t, "commit_failed") EXCEPT !.fit = task[t].existing]
               /\ UNCHANGED <<ideas, last_clustered_idea_count>>
     /\ UNCHANGED <<clusters, _clustering_services, _clustering_locks, req, force, bulk,
                    next_id, hist>>

(* update_cluster_labels, lines 555-600: the ideas are read and the labels *)
(* requested from the LLM (asyncio.gather)                                 *)
RefitLabelsRead(t) ==
  /\ task[t].pc = "labels"
  /\ task' = [task EXCEPT ![t].pc = "llm", ![t].rows = SessionIdeas(task[t].session)]
  /\ obs' = Quiet
  /\ UNCHANGED <<ideas, last_clustered_idea_count, clusters, _clustering_services, services,
                 _recluster_in_progress, _clustering_locks, req, force, bulk, next_id,
                 hist>>

ClustersRecalculated(s, g) == [type |-> "clusters_recalculated", session |-> s, fit |-> g]

(* lines 600-653 and the finally of full_recluster_session: summarize_cluster *)
(* returned or raised; the except of line 651 only logs                       *)
LabelOutcomes == {"ok", "llm_raises"}

RefitLabelsWrite(t) ==
  LET s == task[t].session IN
  /\ task[t].pc = "llm"
  /\ \E out \in LabelOutcomes :
       /\ FailureAllowed(out)
       /\ hist' = CountFailure(hist, out)
       /\ IF out = "ok"
            THEN /\ clusters' = [clusters EXCEPT ![s] = UpsertAll(clusters[s], task[t].rows, "llm")]
                 /\ obs' = [Ended(t, "done") EXCEPT
                              !.committed = TRUE, !.regenerated = TRUE, !.fit = task[t].existing,
                              !.sent = {ClustersRecalculated(s, task[t].existing)}]
            ELSE /\ clusters' = clusters
                 /\ obs' = [Ended(t, "done") EXCEPT !.committed = TRUE, !.fit = task[t].existing]
  /\ task' = [task EXCEPT ![t] = IdleTask]
  /\ _recluster_in_progress' = finally_discard(s)
  /\ services' = Sweep(services, Refs(_clustering_services, req, task', force))
  /\ UNCHANGED <<ideas, last_clustered_idea_count, _clustering_services, _clustering_locks,
                 req, force, bulk, next_id>>

(* ------------------------------------------------------------------ *)
(* force_cluster and create_bulk_ideas (api/debug.py)                  *)
(* ------------------------------------------------------------------ *)

ForceEnded(s, result) ==
  [Quiet EXCEPT !.op = "force_cluster", !.session = s, !.result = result]

(* the in-memory rows a fit over the ideas g leaves in the caller's hands *)
FittedRows(s, g) ==
  {[id |-> i, session |-> s, x |-> UmapX(g, i), y |-> UmapY(g, i),
    cluster_id |-> FitLabel(g, i), fit |-> g] : i \in g}

(* lines 456-468: a call that finds the lock set is answered 409; otherwise  *)
(* the lock is set (465) and manager.send_clustering_started is looked up    *)
(* (468). ConnectionManager defines no such method (websocket/manager.py):   *)
(* the lookup raises AttributeError before the try of line 470 is entered,   *)
(* so neither the body of lines 471-573 nor the finally of 574-579 runs, the *)
(* request ends with an error and the lock stays set. There is no await      *)
(* between the lock test and the raise: the handler is one step.             *)
ForceStart(s) ==
  /\ Calm /\ hist.forced < MaxForce
  /\ IF _clustering_locks[s]
       THEN /\ obs' = ForceEnded(s, "conflict")
            /\ UNCHANGED _clustering_locks
       ELSE /\ _clustering_locks' = [_clustering_locks EXCEPT ![s] = TRUE]
            /\ obs' = ForceEnded(s, "error")
  /\ hist' = [hist EXCEPT !.forced = hist.forced + 1]
  /\ UNCHANGED <<ideas, last_clustered_idea_count, clusters, _clustering_services, services,
                 _recluster_in_progress, req, task, force, bulk, next_id>>

BulkEnded(s, result) ==
  [Quiet EXCEPT !.op = "create_bulk_ideas", !.session = s, !.result = result]

BulkCounts == {1, 2}

(* lines 58-165: count ideas with random coordinates and no cluster, committed. *)
(* In a session that holds ideas already the scoring loop raises IndexError    *)
(* (created_ideas[closest_idx], line 134) before anything is written: such a   *)
(* request changes nothing.                                                    *)
BulkStart(s, count) ==
  LET ids == next_id..(next_id + count - 1) IN
  /\ Disturbances + 1 < MaxDisturbances /\ hist.bulks < MaxBulk
  /\ SessionIdeas(s) = {}
  /\ bulk[s].pc = "idle"
  /\ Accepting
  /\ next_id + count - 1 <= MaxIdeas
  /\ \E p \in RandomPoints :
       LET written == ideas \cup {[id |-> i, session |-> s, x |-> p[1], y |-> p[2],
                                   cluster_id |-> None, fit |-> {}] : i \in ids}
       IN /\ ideas' = written
          /\ hist' = MarkReached([hist EXCEPT !.bulks = hist.bulks + 1], written)
  /\ next_id' = next_id + count
  /\ bulk' = [bulk EXCEPT ![s].pc = "select"]
  /\ task' = MarkChanged(task, s)
  /\ obs' = Quiet
  /\ UNCHANGED <<last_clustered_idea_count, clusters, _clustering_services, services,
                 _recluster_in_progress, _clustering_locks, req, force>>

(* lines 172-190: all ideas read; with at least 10 of them a fit on the *)
(* ClusteringService created at line 102, which is not the cached one   *)
BulkFit(s) ==
  LET rows == SessionIdeas(s) IN
  /\ bulk[s].pc = "select"
  /\ IF Cardinality(rows) < DebugMinIdeas
       THEN /\ bulk' = [bulk EXCEPT ![s] = IdleBulk]
            /\ obs' = BulkEnded(s, "created")
            /\ UNCHANGED hist
       ELSE \E out \in FitOutcomes :
              /\ FailureAllowed(out)
              /\ hist' = CountFailure(hist, out)
              /\ IF out = "ok"
                   THEN /\ bulk' = [bulk EXCEPT ![s].pc = "commit", ![s].existing = IdsOf(rows)]
                        /\ obs' = Quiet
                   ELSE /\ bulk' = [bulk EXCEPT ![s] = IdleBulk]
                        /\ obs' = [BulkEnded(s, "error") EXCEPT !.fit = IdsOf(rows)]
  /\ UNCHANGED <<ideas, last_clustered_idea_count, clusters, _clustering_services, services,
                 _recluster_in_progress, _clustering_locks, req, task, force, next_id>>

(* lines 190-254: the coordinates committed, the Cluster rows of the session *)
(* deleted and recreated with generate_simple_label                          *)
BulkCommit(s) ==
  LET ok == bulk[s].existing \subseteq IdsOf(SessionIdeas(s)) IN
  /\ bulk[s].pc = "commit"
  /\ IF ok
       THEN /\ ideas' = Replaced(ideas, s, bulk[s].existing, bulk[s].existing)
            /\ clusters' = [clusters EXCEPT ![s] =
                              UpsertAll({}, FittedRows(s, bulk[s].existing), "simple")]
            /\ obs' = [BulkEnded(s, "clustered") EXCEPT !.fit = bulk[s].existing]
       ELSE /\ obs' = [BulkEnded(s, "error") EXCEPT !.fit = bulk[s].existing]
            /\ UNCHANGED <<ideas, clusters>>
  /\ bulk' = [bulk EXCEPT ![s] = IdleBulk]
  /\ UNCHANGED <<last_clustered_idea_count, _clustering_services, services,
                 _recluster_in_progress, _clustering_locks, req, task, force, next_id,
                 hist>>

(* ------------------------------------------------------------------ *)
(* delete_idea (api/ideas.py) and loss of the process memory           *)
(* ------------------------------------------------------------------ *)

(* the ideas a DELETE request names: the oldest or the newest of the session *)
DeleteTargets(s) ==
  {i \in SessionIdeas(s) : \/ \A j \in SessionIdeas(s) : i.id <= j.id
                           \/ \A j \in SessionIdeas(s) : i.id >= j.id}

delete_idea(s, i) ==
  /\ Calm /\ hist.deletes < MaxDeletes
  /\ i \in SessionIdeas(s)
  /\ ideas' = ideas \ {i}
  /\ task' = MarkChanged(task, s)
  /\ hist' = [hist EXCEPT !.deletes = hist.deletes + 1, !.deleted = hist.deleted \cup {s}]
  /\ obs' = [Quiet EXCEPT !.op = "delete_idea", !.session = s, !.result = "deleted",
                         !.idea = i.id,
                         !.sent = {[type |-> "idea_deleted", session |-> s, idea |-> i.id]}]
  /\ UNCHANGED <<last_clustered_idea_count, clusters, _clustering_services, services,
                 _recluster_in_progress, _clustering_locks, req, force, bulk, next_id>>

(* the server process restarts: the database stays, the module-level       *)
(* dictionaries and sets are empty again, running coroutines are gone      *)
Restart ==
  /\ Calm /\ hist.restarts < MaxRestarts
  /\ ideas # {}
  /\ _clustering_services' = [s \in Sessions |-> 0]
  /\ services' = [k \in SvcIds |-> EmptyService]
  /\ _recluster_in_progress' = {}
  /\ _clustering_locks' = [s \in Sessions |-> FALSE]
  /\ req' = [r \in Reqs |-> IdleReq]
  /\ task' = [t \in Tasks |-> IdleTask]
  /\ force' = [s \in Sessions |-> IdleForce]
  /\ bulk' = [s \in Sessions |-> IdleBulk]
  /\ hist' = [hist EXCEPT !.restarts = hist.restarts + 1]
  /\ obs' = [Quiet EXCEPT !.op = "restart"]
  /\ UNCHANGED <<ideas, last_clustered_idea_count, clusters, next_id>>

Next ==
  \/ \E r \in Reqs, s \in MainSessions : SubmitStart(r, s) /\ UNCHANGED side
  \/ \E r \in Reqs : SubmitPlace(r) /\ UNCHANGED side
  \/ \E r \in Reqs : SubmitCommit(r) /\ UNCHANGED side
  \/ \E r \in Reqs : SubmitClusters(r) /\ UNCHANGED side
  \/ \E r \in Reqs : SubmitRecheck(r) /\ UNCHANGED side
  \/ \E t \in Tasks : RefitStart(t) /\ UNCHANGED side
  \/ \E t \in Tasks : RefitFit(t) /\ UNCHANGED side
  \/ \E t \in Tasks : RefitCommit(t) /\ UNCHANGED side
  \/ \E t \in Tasks : RefitLabelsRead(t) /\ UNCHANGED side
  \/ \E t \in Tasks : RefitLabelsWrite(t) /\ UNCHANGED side
  \/ \E s \in MainSessions : ForceStart(s) /\ UNCHANGED side
  \/ \E s \in MainSessions, count \in BulkCounts : BulkStart(s, count) /\ UNCHANGED side
  \/ \E s \in MainSessions : BulkFit(s) /\ UNCHANGED side
  \/ \E s \in MainSessions : BulkCommit(s) /\ UNCHANGED side
  \/ \E s \in MainSessions : \E i \in DeleteTargets(s) : delete_idea(s, i) /\ UNCHANGED side
  \/ Restart /\ UNCHANGED side

Spec == Init /\ [][Next]_vars

(* ------------------------------------------------------------------ *)
(* Two sessions.  Session s2 starts as a session that received its     *)
(* first ideas one after the other: the first fit over them and the    *)
(* full re-fit it scheduled have completed and labelled the clusters.  *)
(* ------------------------------------------------------------------ *)

SeedIds == 11..(10 + min_ideas_for_clustering)
SeedService == MaxSvc

InitPair ==
  /\ ideas = FittedRows("s2", SeedIds)
  /\ last_clustered_idea_count = [s \in Sessions |-> IF s = "s2" THEN Cardinality(SeedIds) ELSE 0]
  /\ clusters = [s \in Sessions |->
                   IF s = "s2" THEN UpsertAll({}, FittedRows("s2", SeedIds), "llm") ELSE {}]
  /\ _clustering_services = [s \in Sessions |-> IF s = "s2" THEN SeedService ELSE 0]
  /\ services = fit_transform([k \in SvcIds |-> EmptyService], SeedService, SeedIds,
                              Cardinality(SeedIds), "ok")
  /\ _recluster_in_progress = {}
  /\ _clustering_locks = [s \in Sessions |-> FALSE]
  /\ req = [r \in Reqs |-> IdleReq]
  /\ task = [t \in Tasks |-> IdleTask]
  /\ force = [s \in Sessions |-> IdleForce]
  /\ bulk = [s \in Sessions |-> IdleBulk]
  /\ next_id = 1
  /\ obs = Quiet
  /\ hist = [restarts |-> 0, forced |-> 0, deletes |-> 0, failures |-> 0, bulks |-> 0,
             deleted |-> {}, reached |-> {"s2"}, refit_failed |-> {}]
  /\ scored = <<>>
  /\ score_call = NoCall
  /\ n_clusters_call = NoClustersCall
  /\ active_connections = [room \in Rooms |-> <<>>]
  /\ conn_state = [c \in Conns |-> "new"]
  /\ broadcast = IdleBroadcast
  /\ delivered = {}
  /\ users = [u \in {"u1", "u2"} |-> NoUser]
  /\ idea_rows = {}
  /\ calls = [k \in UserCalls |-> IdleCall]

NextPair ==
  \/ \E r \in Reqs, s \in Sessions : SubmitStart(r, s) /\ UNCHANGED side
  \/ \E r \in Reqs : SubmitPlace(r) /\ UNCHANGED side
  \/ \E r \in Reqs : SubmitCommit(r) /\ UNCHANGED side
  \/ \E r \in Reqs : SubmitClusters(r) /\ UNCHANGED side
  \/ \E r \in Reqs : SubmitRecheck(r) /\ UNCHANGED side
  \/ \E t \in Tasks : RefitStart(t) /\ UNCHANGED side
  \/ \E t \in Tasks : RefitFit(t) /\ UNCHANGED side
  \/ \E t \in Tasks : RefitCommit(t) /\ UNCHANGED side
  \/ \E t \in Tasks : RefitLabelsRead(t) /\ UNCHANGED side
  \/ \E t \in Tasks : RefitLabelsWrite(t) /\ UNCHANGED side
  \/ \E s \in Sessions : ForceStart(s) /\ UNCHANGED side

SpecPair == InitPair /\ [][NextPair]_vars

(* ------------------------------------------------------------------ *)
(* Novelty scoring (services/scoring.py, _calculate_novelty_and_closest *)
(* of api/ideas.py, the scoring loops of api/debug.py)                  *)
(*                                                                      *)
(* Fixed point: a cosine similarity is an integer number of hundredths  *)
(* (SimOne is 1.0), a score returned by the scorer an integer number of *)
(* hundredths of a point (ScoreOne is 1.0).  The novelty_score of an    *)
(* Idea row is kept in halves of that unit, so that novelty_score *= 0.5*)
(* is exact, as it is in binary floating point.  The scorer is given    *)
(* the vector of similarities that cosine_similarity computes from the  *)
(* embeddings.                                                          *)
(* ------------------------------------------------------------------ *)

SimOne == 100
ScoreOne == 100
MaxScored == 3

Similarities == {0 - 100, 0, 80, 100}
SimVectors(n) == [1..n -> Similarities]

Full(score) == 2 * score
Halved(score) == score
MaxNovelty == Full(100 * ScoreOne)

RECURSIVE SeqSum(_)
SeqSum(q) == IF q = <<>> THEN 0 ELSE Head(q) + SeqSum(Tail(q))

SeqMin(q) == CHOOSE v \in {q[i] : i \in DOMAIN q} : \A i \in DOMAIN q : v <= q[i]

(* np.sort *)
Sorted(q) ==
  CHOOSE p \in [DOMAIN q -> {q[i] : i \in DOMAIN q}] :
    /\ \A i \in DOMAIN q : \A j \in DOMAIN q : i <= j => p[i] <= p[j]
    /\ \A v \in {q[i] : i \in DOMAIN q} :
         Cardinality({i \in DOMAIN q : p[i] = v}) = Cardinality({i \in DOMAIN q : q[i] = v})

(* floor of the square root *)
ISqrt(n) == CHOOSE k \in 0..(n \div 10 + 10) : k * k <= n /\ (k + 1) * (k + 1) > n

(* distances = 1 - similarities *)
distances(similarities) == [i \in DOMAIN similarities |-> SimOne - similarities[i]]

(* min(100.0, avg_distance * 50.0) *)
linear_distance_transform(similarities) ==
  IF Len(similarities) = 0 THEN 50 * ScoreOne
  ELSE Min(100 * ScoreOne,
           (SeqSum(distances(similarities)) * 50 * ScoreOne) \div (Len(similarities) * SimOne))

(* the transform without the clip at 100 *)
min_distance_transform_unclipped(similarities) ==
  IF Len(similarities) = 0 THEN 50 * ScoreOne
  ELSE LET min_distance == SeqMin(distances(similarities))
       IN (min_distance * ISqrt(min_distance * SimOne) * 300 * ScoreOne) \div (SimOne * SimOne)

(* min(100.0, (min_distance ** 1.5) * 300.0) *)
min_distance_transform(similarities) ==
  IF Len(similarities) = 0 THEN 50 * ScoreOne
  ELSE LET min_distance == SeqMin(distances(similarities))
       IN Min(100 * ScoreOne,
              (min_distance * ISqrt(min_distance * SimOne) * 300 * ScoreOne) \div (SimOne * SimOne))

(* beta = 2.0: min(100.0, mean(distances ** beta) * 50.0 * (2.0 / beta)) *)
Beta == 2
exponential_distance_transform(similarities) ==
  IF Len(similarities) = 0 THEN 50 * ScoreOne
  ELSE LET d == distances(similarities)
           exp_distances == [i \in DOMAIN d |-> d[i] * d[i]]
       IN Min(100 * ScoreOne,
              (SeqSum(exp_distances) * 50 * ScoreOne * 2)
                \div (Len(similarities) * SimOne * SimOne * Beta))

(* percentile = 75.0, np.percentile with linear interpolation *)
Percentile == 75
percentile_distance_transform(similarities) ==
  IF Len(similarities) = 0 THEN 50 * ScoreOne
  ELSE LET d == Sorted(distances(similarities))
           pos == (Len(d) - 1) * Percentile
           lo == pos \div 100 + 1
           hi == IF lo < Len(d) THEN lo + 1 ELSE lo
           percentile_distance100 == d[lo] * 100 + (pos % 100) * (d[hi] - d[lo])
       IN Min(100 * ScoreOne, (percentile_distance100 * 50 * ScoreOne) \div (100 * SimOne))

(* k = 5: the mean of the k smallest distances *)
TopK == 5
top_k_distance_transform(similarities) ==
  IF Len(similarities) = 0 THEN 50 * ScoreOne
  ELSE LET d == Sorted(distances(similarities))
           actual_k == Min(TopK, Len(d))
       IN Min(100 * ScoreOne,
              (SeqSum(SubSeq(d, 1, actual_k)) * 50 * ScoreOne) \div (actual_k * SimOne))

Transforms == {"linear", "min", "exponential", "percentile", "top_k"}

transform_fn(name, similarities) ==
  CASE name = "linear" -> linear_distance_transform(similarities)
    [] name = "min" -> min_distance_transform(similarities)
    [] name = "exponential" -> exponential_distance_transform(similarities)
    [] name = "percentile" -> percentile_distance_transform(similarities)
    [] name = "top_k" -> top_k_distance_transform(similarities)

(* NoveltyScorer.calculate_score *)
calculate_score(name, similarities) ==
  IF Len(similarities) = 0 THEN transform_fn(name, <<>>) ELSE transform_fn(name, similarities)

(* np.argmax: the first index of the maximum *)
argmax(q) ==
  CHOOSE i \in DOMAIN q : /\ \A j \in DOMAIN q : q[j] <= q[i]
                          /\ \A j \in DOMAIN q : q[j] = q[i] => i <= j

(* user ids: the request schema of create_idea carries a UUID, the rows and *)
(* the debug requests carry its string                                      *)
Users == {"u1", "u2"}
UUID(u) == [type |-> "UUID", hex |-> u]
str(v) == [type |-> "str", hex |-> v.hex]

ScoredRow(path, user_id, n_existing, result, penalize) ==
  [path |-> path, user_id |-> user_id, n_existing |-> n_existing,
   novelty_score |-> result.novelty_score, closest_idea_id |-> result.closest_idea_id,
   score |-> result.score, penalize |-> penalize]

(* _calculate_novelty_and_closest; score is what the scorer returned (100 *)
(* without a call of the scorer)                                          *)
_calculate_novelty_and_closest(similarities, existing_ideas, current_user_id, penalize) ==
  IF Len(existing_ideas) = 0
    THEN [novelty_score |-> Full(100 * ScoreOne), closest_idea_id |-> 0,
          score |-> 100 * ScoreOne]
    ELSE LET closest_idx == argmax(similarities)
             closest_idea == existing_ideas[closest_idx]
             novelty_score == calculate_score("min", similarities)
         IN [novelty_score |->
               IF penalize /\ closest_idea.user_id = current_user_id
                 THEN Halved(novelty_score) ELSE Full(novelty_score),
             closest_idea_id |-> closest_idx, score |-> novelty_score]

ScorerCall(name, similarities) ==
  [transform |-> name, n |-> Len(similarities), score |-> calculate_score(name, similarities)]

(* create_idea, lines 241-345: the existing ideas, the score, the new row *)
ScoreCreate(u, penalize, similarities) ==
  LET current_user_id == UUID(u)
      result == _calculate_novelty_and_closest(similarities, scored, current_user_id, penalize)
  IN /\ Len(scored) < MaxScored
     /\ Len(similarities) = Len(scored)
     /\ scored' = Append(scored, ScoredRow("create_idea", str(current_user_id), Len(scored),
                                           result, penalize))
     /\ score_call' = IF Len(scored) = 0 THEN NoCall ELSE ScorerCall("min", similarities)
     /\ UNCHANGED not_score

(* create_bulk_ideas, lines 108-158: all_rows are the owners of            *)
(* all_embeddings[:-1], created those of created_ideas, which closest_idx  *)
(* indexes; batch holds the similarities of each new text in turn          *)
RECURSIVE bulk_created(_, _, _, _)
bulk_created(all_rows, created, user_id, batch) ==
  IF batch = <<>> THEN [raised |-> FALSE, rows |-> created]
  ELSE LET similarities == Head(batch)
           n == Len(all_rows)
           closest_idx == argmax(similarities)
           novelty_score == calculate_score("linear", similarities)
           result ==
             IF n = 0
               THEN [novelty_score |-> Full(100 * ScoreOne), closest_idea_id |-> 0,
                     score |-> 100 * ScoreOne]
               ELSE [novelty_score |->
                       IF created[closest_idx].user_id = user_id
                         THEN Halved(novelty_score) ELSE Full(novelty_score),
                     closest_idea_id |-> n - Len(created) + closest_idx,
                     score |-> novelty_score]
           row == ScoredRow("bulk", user_id, n, result, TRUE)
       IN IF n > 0 /\ closest_idx > Len(created)
            THEN [raised |-> TRUE, rows |-> <<>>]
            ELSE bulk_created(Append(all_rows, row), Append(created, row), user_id, Tail(batch))

BulkBatches(n_existing) ==
  (IF n_existing + 1 <= MaxScored THEN {<<a>> : a \in SimVectors(n_existing)} ELSE {})
    \cup (IF n_existing + 2 <= MaxScored
            THEN {<<a, b>> : a \in SimVectors(n_existing), b \in SimVectors(n_existing + 1)}
            ELSE {})

(* the IndexError of created_ideas[closest_idx] ends the request before *)
(* the commit of line 165                                               *)
ScoreBulk(u, batch) ==
  LET user_id == str(UUID(u))
      out == bulk_created(scored, <<>>, user_id, batch)
  IN /\ Len(scored) + Len(batch) <= MaxScored
     /\ scored' = IF out.raised THEN scored ELSE scored \o out.rows
     /\ score_call' = IF Len(scored) + Len(batch) = 1 THEN NoCall
                      ELSE ScorerCall("linear", batch[Len(batch)])
     /\ UNCHANGED not_score

(* create_test_session, lines 712-757: the ideas of a new session, dealt *)
(* to its users in turn; the scorer is called for the first idea too     *)
RECURSIVE test_session_created(_, _, _)
test_session_created(created, user_ids, batch) ==
  IF batch = <<>> THEN created
  ELSE LET similarities == Head(batch)
           user_id == user_ids[(Len(created) % Len(user_ids)) + 1]
           novelty_score == calculate_score("linear", similarities)
           closest_idx == argmax(similarities)
           result ==
             IF Len(created) = 0
               THEN [novelty_score |-> Full(novelty_score), closest_idea_id |-> 0,
                     score |-> novelty_score]
               ELSE [novelty_score |->
                       IF created[closest_idx].user_id = user_id
                         THEN Halved(novelty_score) ELSE Full(novelty_score),
                     closest_idea_id |-> closest_idx, score |-> novelty_score]
           row == ScoredRow("test_session", user_id, Len(created), result, TRUE)
       IN test_session_created(Append(created, row), user_ids, Tail(batch))

TestBatches ==
  {<<a>> : a \in SimVectors(0)}
    \cup {<<a, b>> : a \in SimVectors(0), b \in SimVectors(1)}
    \cup {<<a, b, c>> : a \in SimVectors(0), b \in SimVectors(1), c \in SimVectors(2)}

UserLists == {<<str(UUID("u1"))>>, <<str(UUID("u1")), str(UUID("u2"))>>}

ScoreTestSession(user_ids, batch) ==
  /\ scored = <<>>
  /\ Len(batch) <= MaxScored
  /\ scored' = test_session_created(<<>>, user_ids, batch)
  /\ score_call' = ScorerCall("linear", batch[Len(batch)])
  /\ UNCHANGED not_score

(* the scorer called on its own with any of the transforms of scoring.py *)
CallScorer(name, similarities) ==
  /\ scored = <<>>
  /\ score_call' = ScorerCall(name, similarities)
  /\ UNCHANGED <<not_score, scored>>

NextScore ==
  \/ \E u \in Users, penalize \in BOOLEAN, similarities \in SimVectors(Len(scored)) :
       ScoreCreate(u, penalize, similarities)
  \/ \E u \in Users, batch \in BulkBatches(Len(scored)) : ScoreBulk(u, batch)
  \/ \E user_ids \in UserLists, batch \in TestBatches : ScoreTestSession(user_ids, batch)
  \/ \E name \in Transforms, n \in 0..MaxScored :
       \E similarities \in SimVectors(n) : CallScorer(name, similarities)

SpecScore == Init /\ [][NextScore]_score_vars

(* ------------------------------------------------------------------ *)
(* The cluster count heuristic on its own (services/clustering.py):    *)
(* _calculate_n_clusters for any idea count, override and settings     *)
(* ------------------------------------------------------------------ *)

MaxCount == 1000

(* Session.fixed_cluster_count: None or a number the session was given *)
Overrides == {None, 1, 2, 7, 50}

(* min_ideas_for_clustering as instantiated above and its default *)
Thresholds == {min_ideas_for_clustering, 10}

(* max_clusters: the least value the settings accept, values around the *)
(* minimum of 5, the default                                            *)
Caps == {2, 4, 5, 8, max_clusters}

CallNClusters(n_ideas, fixed_cluster_count, threshold, cap) ==
  /\ n_clusters_call' =
       [n_ideas |-> n_ideas, fixed_cluster_count |-> fixed_cluster_count,
        threshold |-> threshold, cap |-> cap,
        n_clusters |-> _calculate_n_clusters_with(n_ideas, fixed_cluster_count, threshold, cap)]
  /\ UNCHANGED not_clusters

(* one call of the function per behaviour *)
NextClusters ==
  /\ n_clusters_call = NoClustersCall
  /\ \E n_ideas \in 1..MaxCount, fixed_cluster_count \in Overrides, threshold \in Thresholds,
        cap \in Caps : CallNClusters(n_ideas, fixed_cluster_count, threshold, cap)

SpecClusters == Init /\ [][NextClusters]_n_clusters_call

(* ------------------------------------------------------------------ *)
(* ConnectionManager (websocket/manager.py) and the websocket endpoint *)
(* (api/websocket.py).  A room of active_connections is a Python list; *)
(* the empty sequence stands for a room without a key.  The for loop   *)
(* of broadcast_to_session keeps an index into the list object it      *)
(* started on; a list whose key was deleted is empty and stays empty.  *)
(* ------------------------------------------------------------------ *)

MaxBroadcasts == 2

InList(q, c) == \E j \in DOMAIN q : q[j] = c
(* list.remove(c) *)
Remove(q, c) == SelectSeq(q, LAMBDA e : e # c)

Message(n, room) == [id |-> n, room |-> room]

(* manager.connect, lines 18-26, after websocket.accept() returned *)
WsConnect(c) ==
  /\ conn_state[c] = "new"
  /\ conn_state' = [conn_state EXCEPT ![c] = "open"]
  /\ active_connections' = [active_connections EXCEPT ![RoomOf(c)] = Append(@, c)]
  /\ UNCHANGED <<broadcast, delivered, not_ws>>

(* the client goes away; the endpoint has not yet seen WebSocketDisconnect *)
WsPeerGone(c) ==
  /\ conn_state[c] = "open"
  /\ conn_state' = [conn_state EXCEPT ![c] = "broken"]
  /\ broadcast' = [broadcast EXCEPT !.stayed = @ \ {c}]
  /\ UNCHANGED <<active_connections, delivered, not_ws>>

(* the iteration of a broadcast over room loses its list when the key is deleted *)
Detach(b, room, q) ==
  IF b.pc = "sending" /\ b.room = room /\ q = <<>> THEN [b EXCEPT !.attached = FALSE] ELSE b

(* api/websocket.py line 41: manager.disconnect, lines 28-37; list.remove *)
(* raises ValueError for a connection that is not in the list            *)
WsDisconnect(c) ==
  LET room == RoomOf(c)
      q == active_connections[room]
  IN /\ conn_state[c] = "broken"
     /\ conn_state' = [conn_state EXCEPT ![c] = "closed"]
     /\ IF q # <<>> /\ InList(q, c)
          THEN /\ active_connections' = [active_connections EXCEPT ![room] = Remove(q, c)]
               /\ broadcast' = Detach(broadcast, room, Remove(q, c))
          ELSE UNCHANGED <<active_connections, broadcast>>
     /\ UNCHANGED <<delivered, not_ws>>

(* lines 59-61: disconnect for each connection marked as broken *)
RECURSIVE cleanup(_, _)
cleanup(q, disconnected) ==
  IF disconnected = <<>> THEN [raised |-> FALSE, list |-> q]
  ELSE IF q = <<>> THEN cleanup(q, Tail(disconnected))
  ELSE IF ~InList(q, Head(disconnected)) THEN [raised |-> TRUE, list |-> q]
  ELSE cleanup(Remove(q, Head(disconnected)), Tail(disconnected))

(* the list the for loop of the broadcast iterates over *)
Iterated(b) == IF b.attached THEN active_connections[b.room] ELSE <<>>

(* lines 45-54: the key test, the first connection of the list, send_text *)
BroadcastStart(room) ==
  LET q == active_connections[room] IN
  /\ broadcast.pc = "idle"
  /\ broadcast.msg < MaxBroadcasts
  /\ broadcast' =
       IF q = <<>>
         THEN [IdleBroadcast EXCEPT !.pc = "done", !.room = room, !.msg = broadcast.msg + 1]
         ELSE [IdleBroadcast EXCEPT !.pc = "sending", !.room = room,
                                    !.msg = broadcast.msg + 1, !.i = 1, !.current = q[1],
                                    !.attached = TRUE,
                                    !.stayed = {c \in Conns : InList(q, c) /\ conn_state[c] = "open"}]
  /\ UNCHANGED <<active_connections, conn_state, delivered, not_ws>>

(* send_text returned or raised (lines 53-57); then the next connection of *)
(* the list, or the clean-up of lines 59-61 when the list is exhausted     *)
BroadcastStep ==
  LET b == broadcast
      sent == conn_state[b.current] = "open"
      disconnected == IF sent THEN b.disconnected ELSE Append(b.disconnected, b.current)
      q == Iterated(b)
      cleaned == cleanup(active_connections[b.room], disconnected)
  IN /\ b.pc = "sending"
     /\ delivered' = IF sent THEN delivered \cup {<<b.current, Message(b.msg, b.room)>>}
                     ELSE delivered
     /\ IF b.i < Len(q)
          THEN /\ broadcast' = [b EXCEPT !.i = b.i + 1, !.current = q[b.i + 1],
                                         !.disconnected = disconnected]
               /\ UNCHANGED active_connections
          ELSE /\ broadcast' = [b EXCEPT !.pc = IF cleaned.raised THEN "raised" ELSE "done",
                                         !.disconnected = disconnected]
               /\ active_connections' = [active_connections EXCEPT ![b.room] = cleaned.list]
     /\ UNCHANGED <<conn_state, not_ws>>

(* broadcast_to_session returned to its caller, or raised *)
BroadcastReturn ==
  /\ broadcast.pc \in {"done", "raised"}
  /\ broadcast' = [IdleBroadcast EXCEPT !.msg = broadcast.msg]
  /\ UNCHANGED <<active_connections, conn_state, delivered, not_ws>>

NextWs ==
  \/ \E c \in Conns : WsConnect(c)
  \/ \E c \in Conns : WsPeerGone(c)
  \/ \E c \in Conns : WsDisconnect(c)
  \/ \E room \in Rooms : BroadcastStart(room)
  \/ BroadcastStep
  \/ BroadcastReturn

SpecWs == Init /\ [][NextWs]_ws_vars

(* ------------------------------------------------------------------ *)
(* The user counters (api/ideas.py): create_idea adds to the User row  *)
(* it loaded in step 1, delete_idea recomputes the counters from the   *)
(* remaining Idea rows.  Every request has its own database session.   *)
(* ------------------------------------------------------------------ *)

MaxUserIdeas == 3
UserIdeaIds == 1..MaxUserIdeas
NoveltyScores == {50, 100}

RECURSIVE SetSum(_)
SetSum(rows) ==
  IF rows = {} THEN 0
  ELSE LET row == CHOOSE row \in rows : TRUE
       IN row.novelty_score + SetSum(rows \ {row})

IdeasOf(u) == {row \in idea_rows : row.user_id = u}
FreeIdeaIds == UserIdeaIds \ {row.id : row \in idea_rows}

(* create_idea, lines 226-231: _verify_session_and_user loads the User row *)
CreateVerify(k, u) ==
  /\ calls[k].pc = "idle"
  /\ users[u].idea_count < MaxUserIdeas
  /\ Cardinality(idea_rows) + Cardinality({j \in UserCalls : calls[j].pc # "idle"}) < MaxUserIdeas
  /\ calls' = [calls EXCEPT ![k] = [pc |-> "scoring", user_id |-> u, user |-> users[u],
                                    novelty_score |-> 0]]
  /\ UNCHANGED <<users, idea_rows, not_users>>

(* create_idea, lines 242-343: formatting, embedding, scoring, placement *)
CreateScore(k, novelty_score) ==
  /\ calls[k].pc = "scoring"
  /\ calls' = [calls EXCEPT ![k].pc = "commit", ![k].novelty_score = novelty_score]
  /\ UNCHANGED <<users, idea_rows, not_users>>

(* create_idea, lines 332-351: the Idea row, the += on the loaded User row, commit *)
CreateCommit(k) ==
  LET call == calls[k]
      id == CHOOSE id \in FreeIdeaIds : \A other \in FreeIdeaIds : id <= other
  IN /\ call.pc = "commit"
     /\ FreeIdeaIds # {}
     /\ idea_rows' = idea_rows \cup
          {[id |-> id, user_id |-> call.user_id, novelty_score |-> call.novelty_score]}
     /\ users' = [users EXCEPT ![call.user_id] =
                    [idea_count |-> call.user.idea_count + 1,
                     total_score |-> call.user.total_score + call.novelty_score]]
     /\ calls' = [calls EXCEPT ![k] = IdleCall]
     /\ UNCHANGED not_users

(* delete_idea, lines 766-818; from db.delete to the commit the database *)
(* serialises the statements with those of the other writers             *)
DeleteIdea(row) ==
  LET remaining_ideas == IdeasOf(row.user_id) \ {row} IN
  /\ idea_rows' = idea_rows \ {row}
  /\ users' = [users EXCEPT ![row.user_id] =
                 [idea_count |-> Cardinality(remaining_ideas),
                  total_score |-> SetSum(remaining_ideas)]]
  /\ UNCHANGED <<calls, not_users>>

NextUsers ==
  \/ \E k \in UserCalls, u \in DOMAIN users : CreateVerify(k, u)
  \/ \E k \in UserCalls, novelty_score \in NoveltyScores : CreateScore(k, novelty_score)
  \/ \E k \in UserCalls : CreateCommit(k)
  \/ \E row \in idea_rows : DeleteIdea(row)

SpecUsers == Init /\ [][NextUsers]_user_vars

(* ------------------------------------------------------------------ *)
(* Properties                                                          *)
(* ------------------------------------------------------------------ *)

Running(t) == task[t].pc \in {"select", "commit", "labels", "llm"}
RunningTasks(s) == {t \in Tasks : task[t].session = s /\ Running(t)}

(* C1: an invocation of full_recluster_session made while a re-fit of the   *)
(* same session is in progress returns without fitting or writing anything, *)
(* so at most one background re-fit of a session is in flight at any time   *)
(* and the session is marked in progress for as long as it runs.            *)
C1_AtMostOneRefit ==
  /\ [](\A s \in Sessions :
          /\ Cardinality(RunningTasks(s)) <= 1
          /\ RunningTasks(s) # {} => s \in _recluster_in_progress)
  /\ [][\A t \in Tasks :
          (/\ task[t].pc = "scheduled"
           /\ task[t].session \in _recluster_in_progress
           /\ task'[t].pc # "scheduled"
           /\ hist'.restarts = hist.restarts)
          => /\ task'[t] = IdleTask
             /\ UNCHANGED <<ideas, last_clustered_idea_count, clusters, services,
                            _clustering_services, _recluster_in_progress>>]_vars

(* a second invocation was dropped while the first is still running *)
C1_Witness ==
  /\ obs.op = "full_recluster_session"
  /\ obs.result = "skipped"
  /\ RunningTasks(obs.session) # {}

Submitted == obs.op = "create_idea"
Created == Submitted /\ obs.result = "created"
RefitEnded == obs.op = "full_recluster_session"

(* C2: the submission that brings the count of a session to exactly the   *)
(* threshold runs the first fit and neither runs nor schedules a second   *)
(* full fit.                                                              *)
C2_FirstFitOnly ==
  (Created /\ obs.branch = "first" /\ obs.total = min_ideas_for_clustering)
    => ~obs.scheduled

(* C3: a submission to a session with at least the threshold many ideas   *)
(* and no fitted model is accepted, its idea is stored at a random point  *)
(* of the square, and the submission schedules a full re-fit.             *)
C3_StaleSchedulesRefit ==
  (Submitted /\ obs.branch = "stale")
    => Created /\ InSquare(obs.x, obs.y) /\ obs.scheduled

(* C4: last_clustered_idea_count changes only in the successful commit of *)
(* a full re-fit, and when a re-fit ends by a raising fit or a failing    *)
(* commit it has the value it had when that re-fit started.               *)
C4_WatermarkOnlyBySuccess ==
  /\ []((RefitEnded /\ obs.result \in {"fit_failed", "commit_failed"})
          => last_clustered_idea_count[obs.session] = obs.last_at_start)
  /\ [][\A s \in Sessions :
          last_clustered_idea_count'[s] # last_clustered_idea_count[s]
          => \E t \in Tasks :
               /\ task[t].session = s
               /\ task[t].pc = "commit"
               /\ task'[t].pc = "labels"
               /\ task[t].existing \subseteq IdsOf(SessionIdeas(s))
               /\ last_clustered_idea_count'[s] = Cardinality(task[t].existing)]_vars

(* a re-fit of a session with a positive watermark failed *)
C4_Witness ==
  /\ RefitEnded
  /\ obs.result \in {"fit_failed", "commit_failed"}
  /\ obs.last_at_start > 0

(* C5: in a session whose background re-fit failed in the fit, a later    *)
(* submission that reaches the placement by the model is accepted.        *)
C5_AcceptedAfterFailedRefit ==
  (Submitted /\ obs.session \in hist.refit_failed /\ obs.branch = "transform")
    => Created

C7_NeverDecreases ==
  [][\A s \in Sessions :
       last_clustered_idea_count'[s] >= last_clustered_idea_count[s]]_vars

(* C7: the watermark of a session never decreases as long as no idea of   *)
(* the session has been deleted, whatever submissions, restarts, forced   *)
(* clusterings, bulk creations and re-fits take place.                    *)
C7_NeverDecreasesWithoutDeletion ==
  [][\A s \in Sessions :
       s \notin hist'.deleted
       => last_clustered_idea_count'[s] >= last_clustered_idea_count[s]]_vars

(* a re-fit moved the watermark after the model was lost, nothing deleted *)
C7_Witness ==
  /\ RefitEnded /\ obs.result = "committed"
  /\ hist.restarts > 0 /\ obs.session \notin hist.deleted
  /\ obs.last_at_start > 0
  /\ last_clustered_idea_count[obs.session] > obs.last_at_start

Unplaced(i) == InSquare(i.x, i.y) /\ i.cluster_id = None

(* C8 as stated: in a session holding fewer than threshold - 1 ideas,     *)
(* every idea lies in the square and has no cluster.                      *)
C8_SmallSessionUnplaced ==
  \A s \in Sessions :
    IdeaCount(s) < min_ideas_for_clustering - 1 => \A i \in SessionIdeas(s) : Unplaced(i)

(* C8: in a session that has never held the threshold many ideas, every   *)
(* idea lies in the square and has no cluster.                            *)
C8_UnplacedBeforeThreshold ==
  \A s \in Sessions :
    s \notin hist.reached => \A i \in SessionIdeas(s) : Unplaced(i)

(* a session one idea below the threshold after a bulk creation           *)
C8_Witness ==
  \E s \in Sessions :
    /\ s \notin hist.reached
    /\ hist.bulks > 0
    /\ IdeaCount(s) = min_ideas_for_clustering - 1

(* C9 as stated: an idea_created event carries coordinates_recalculated = *)
(* true only if its submission ran the first fit or scheduled a periodic  *)
(* re-fit.                                                                *)
C9_FlagOnlyOnRefit ==
  \A m \in obs.sent :
    (m.type = "idea_created" /\ m.coordinates_recalculated)
      => \/ obs.branch = "first"
         \/ (obs.scheduled /\ obs.since >= clustering_interval)

(* C9: an idea_created event carries coordinates_recalculated = true      *)
(* exactly when its submission ran the first fit or placed its idea by    *)
(* the fallback for a missing model; it is false for every other          *)
(* submission, those that schedule a periodic re-fit included.            *)
C9_FlagOnFirstFitAndFallback ==
  \A m \in obs.sent :
    m.type = "idea_created"
      => (m.coordinates_recalculated <=> obs.branch \in {"first", "stale"})

(* a fallback submission that is not due for a periodic re-fit carried    *)
(* the flag                                                               *)
C9_Witness ==
  /\ Created /\ obs.branch = "stale" /\ obs.since < clustering_interval
  /\ \E m \in obs.sent : m.type = "idea_created" /\ m.coordinates_recalculated

(* C10: a full re-fit that committed its coordinates and watermark ends   *)
(* with the cluster rows regenerated and clusters_recalculated broadcast. *)
C10_RegeneratedAndBroadcast ==
  (RefitEnded /\ obs.result = "done")
    => /\ obs.regenerated
       /\ ClustersRecalculated(obs.session, obs.fit) \in obs.sent

(* C11: when the label generator fails during a full re-fit, the re-fit   *)
(* still ends with its coordinates committed and with a Cluster row,      *)
(* carrying the member count, the hull and the numbered fallback label,   *)
(* for every cluster of the ideas it placed.                              *)
C11_LabelFailureNonFatal ==
  (RefitEnded /\ obs.result = "done" /\ ~obs.regenerated)
    => LET s == obs.session
           placed == {i \in SessionIdeas(s) : i.fit = obs.fit}
       IN /\ obs.committed
          /\ \A c \in ClusterIds(placed) :
               /\ HasRow(clusters[s], c)
               /\ RowOf(clusters[s], c).label = "simple"
               /\ RowOf(clusters[s], c).idea_count >= Cardinality(Members(placed, c))

C13_EmptyScoresMaximum ==
  /\ \A i \in DOMAIN scored :
       scored[i].n_existing = 0 => scored[i].novelty_score = MaxNovelty
  /\ (score_call.transform # "none" /\ score_call.n = 0)
       => score_call.score = 100 * ScoreOne

(* C14: in a session with the penalty enabled, an idea stored by          *)
(* create_idea whose closest idea has the same author has exactly half    *)
(* the score the scorer returned, and the full score when the authors     *)
(* differ.                                                                *)
C14_SameAuthorHalved ==
  \A i \in DOMAIN scored :
    (scored[i].path = "create_idea" /\ scored[i].penalize /\ scored[i].closest_idea_id # 0)
      => IF scored[scored[i].closest_idea_id].user_id.hex = scored[i].user_id.hex
           THEN 2 * scored[i].novelty_score = Full(scored[i].score)
           ELSE scored[i].novelty_score = Full(scored[i].score)

Called == n_clusters_call.n_ideas >= 1
Unfixed == n_clusters_call.fixed_cluster_count = None

(* the least c with c * c * c >= n: the ceiling of the cube root of n *)
IsCeilCbrt(c, n) == c * c * c >= n /\ (c - 1) * (c - 1) * (c - 1) < n

BroadcastEnded == broadcast.pc \in {"done", "raised"}

(* C16: when a broadcast to a room ends, every connection that was        *)
(* registered in the room and open from its start to its end has          *)
(* received the message, and no connection ever receives a message of     *)
(* another room.                                                          *)
C16_DeliveredToRoom ==
  /\ BroadcastEnded
       => \A c \in broadcast.stayed :
            <<c, Message(broadcast.msg, broadcast.room)>> \in delivered
  /\ \A d \in delivered : RoomOf(d[1]) = d[2].room

NoCallInProgress == \A k \in UserCalls : calls[k].pc = "idle"

(* C17: whenever no submission or deletion is in progress, idea_count of   *)
(* every user is the number of the user's Idea rows and total_score is the *)
(* sum of their novelty scores.                                            *)
C17_CountersMatchIdeas ==
  NoCallInProgress
    => \A u \in DOMAIN users :
         /\ users[u].idea_count = Cardinality(IdeasOf(u))
         /\ users[u].total_score = SetSum(IdeasOf(u))

(* the operations that have read the ideas of session s and fitted its model *)
(* and have not yet committed the placements of the fit                      *)
WritersInProgress(s) ==
  {<<"create_idea", r>> : r \in {r \in Reqs : /\ req[r].session = s
                                             /\ req[r].pc = "commit"
                                             /\ req[r].branch = "first"}}
  \cup {<<"full_recluster_session", t>> : t \in {t \in Tasks : /\ task[t].session = s
                                                              /\ task[t].pc = "commit"}}
  \cup (IF force[s].pc = "commit" THEN {<<"force_cluster", s>>} ELSE {})

(* C18: at no time are two writers (first fit of a submission, background  *)
(* re-fit, forced clustering) of the same session between the fit over the *)
(* ideas they read and the commit of its placements.                       *)
C18_OneWriterPerSession ==
  \A s \in Sessions : Cardinality(WritersInProgress(s)) <= 1

(* C19: whenever an invocation of full_recluster_session that set the      *)
(* in-progress flag terminates (success, fewer than T ideas, an exception  *)
(* of the fit, of the commit or of the labelling), the flag of its session *)
(* is cleared; the flag is never set without a running invocation, so an   *)
(* invocation that starts while no re-fit of the session runs is accepted. *)
C19_FlagClearedOnTermination ==
  /\ [](\A s \in Sessions : s \in _recluster_in_progress => RunningTasks(s) # {})
  /\ [][\A t \in Tasks :
          (Running(t) /\ task'[t].pc \notin {"select", "commit", "labels", "llm"})
          => task[t].session \notin _recluster_in_progress']_vars
  /\ [][\A t \in Tasks :
          (/\ task[t].pc = "scheduled"
           /\ task'[t].pc # "scheduled"
           /\ RunningTasks(task[t].session) = {}
           /\ hist'.restarts = hist.restarts)
          => /\ task'[t].pc = "select"
             /\ task[t].session \in _recluster_in_progress']_vars

(* a re-fit accepted after an earlier re-fit of the session ended by an exception *)
C19_Witness ==
  /\ hist.restarts = 0
  /\ \E t \in Tasks : /\ task[t].pc = "select"
                      /\ task[t].session \in hist.refit_failed
                      /\ task[t].session \in _recluster_in_progress

(* the model of the service object is empty or the result of one successful fit *)
CompleteModel(svc) ==
  \/ IsNone(svc.umap_model) /\ IsNone(svc.kmeans_model)
  \/ /\ ~IsNone(svc.umap_model) /\ ~IsNone(svc.kmeans_model)
     /\ svc.umap_model.fitted /\ svc.kmeans_model.fitted
     /\ svc.umap_model.fit = svc.kmeans_model.fit

(* C20: a submission about to place its idea by the model of its session   *)
(* (transform, predict_cluster) finds either no model or the reduction     *)
(* transform and the partition model of one and the same successful fit.   *)
C20_SeesCompleteModel ==
  \A r \in Reqs :
    (req[r].pc = "embed" /\ Cardinality(req[r].existing) > min_ideas_for_clustering - 1)
      => CompleteModel(services[req[r].svc])

(* the cached service of session s holds a fitted transform and a fitted partition model *)
HasFittedModel(s) ==
  /\ _clustering_services[s] # 0
  /\ LET svc == services[_clustering_services[s]]
     IN /\ ~IsNone(svc.umap_model) /\ svc.umap_model.fitted
        /\ ~IsNone(svc.kmeans_model) /\ svc.kmeans_model.fitted

(* C21: a session that has a fitted placement model has a fitted model   *)
(* after every step of the same process, whatever fit the step attempts. *)
C21_ModelNeverLost ==
  [][\A s \in Sessions :
       (HasFittedModel(s) /\ hist'.restarts = hist.restarts) => HasFittedModel(s)']_vars

(* submission r is about to call transform on the model of its service object *)
CallsTransform(r) ==
  /\ req[r].pc = "embed"
  /\ Cardinality(req[r].existing) > min_ideas_for_clustering - 1
  /\ ~IsNone(services[req[r].svc].umap_model)

(* some idea of session s carries the placement of a fit *)
FitPersisted(s) == \E row \in SessionIdeas(s) : row.fit # {}

(* C22: a submission calls transform only on a transform whose fit has   *)
(* completed successfully, and only in a session where the results of a  *)
(* fit have been persisted.                                              *)
C22_TransformAfterPersistedFit ==
  \A r \in Reqs :
    CallsTransform(r) => /\ services[req[r].svc].umap_model.fitted
                         /\ FitPersisted(req[r].session)

(* C23: when the submission that ran the first fit and brought the count *)
(* of its session to the threshold has completed, the watermark of the   *)
(* session is the threshold.                                             *)
C23_FirstFitSetsWatermark ==
  (Created /\ obs.branch = "first" /\ obs.total = min_ideas_for_clustering)
    => last_clustered_idea_count[obs.session] = min_ideas_for_clustering

Incremental(r) == req[r].branch = "transform"

(* the cached service of session s and its model are the same after the step *)
ModelUnchanged(s) ==
  /\ _clustering_services' = _clustering_services
  /\ _clustering_services[s] # 0
       => services'[_clustering_services[s]] = services[_clustering_services[s]]

(* C24: the steps of a submission that places its idea by transform and  *)
(* predict_cluster leave every existing Idea row, the model of the       *)
(* session and last_clustered_idea_count unchanged; its commit adds the  *)
(* row of the new idea and nothing else.                                 *)
C24_IncrementalWritesNewIdeaOnly ==
  [][\A r \in Reqs :
       ((Incremental(r) \/ req'[r].branch = "transform") /\ req'[r] # req[r]
          /\ hist'.restarts = hist.restarts)
       => /\ ideas \subseteq ideas'
          /\ ideas' \ ideas \subseteq {NewIdea(r)}
          /\ (req[r].pc = "commit" /\ req'[r].pc # "idle") => NewIdea(r) \in ideas'
          /\ ModelUnchanged(req[r].session)
          /\ last_clustered_idea_count' = last_clustered_idea_count]_vars

(* an idea placed by transform was stored next to ideas placed by a fit *)
C24_Witness ==
  /\ Created /\ obs.branch = "transform"
  /\ obs.total > min_ideas_for_clustering
  /\ \E row \in SessionIdeas(obs.session) : row.id # obs.idea /\ row.fit # {}

(* every Cluster row of session s has members, and as many as it counts *)
ClustersAgree(s) ==
  \A row \in clusters[s] :
    /\ Members(SessionIdeas(s), row.id) # {}
    /\ row.idea_count = Cardinality(Members(SessionIdeas(s), row.id))

MembershipChanged ==
  \/ Created /\ obs.branch \in {"first", "transform"}
  \/ RefitEnded /\ obs.result = "done"
  \/ obs.op = "delete_idea" /\ obs.result = "deleted"

(* C25: when a first fit, an incremental placement, a full re-fit or a   *)
(* deletion has completed, every Cluster row of the session has at least *)
(* one idea with its cluster id and counts exactly the ideas with it.    *)
C25_ClusterRowsAgree ==
  MembershipChanged => ClustersAgree(obs.session)

(* the placement state of session s: its cached service and the model in it, *)
(* its in-progress flag, its watermark and its Idea rows                     *)
PlacementState(s) ==
  <<_clustering_services[s],
    IF _clustering_services[s] # 0 THEN services[_clustering_services[s]] ELSE EmptyService,
    s \in _recluster_in_progress,
    last_clustered_idea_count[s],
    SessionIdeas(s)>>

SessionOf(before, after) == IF before.pc # "idle" THEN before.session ELSE after.session

(* the step is a step of a submission, a re-fit or a forced clustering of session a *)
ActsOn(a) ==
  \/ \E r \in Reqs : req'[r] # req[r] /\ SessionOf(req[r], req'[r]) = a
  \/ \E t \in Tasks : task'[t] # task[t] /\ SessionOf(task[t], task'[t]) = a
  \/ (obs'.op = "force_cluster" /\ obs'.session = a)

C27_AllIdeasPlacedByRefit ==
  (RefitEnded /\ obs.result = "committed")
    => \A row \in SessionIdeas(obs.session) : row.fit = obs.fit

(* no submission and no re-fit of session s is scheduled or running *)
Quiescent(s) ==
  /\ \A r \in Reqs : req[r].pc = "idle" \/ req[r].session # s
  /\ \A t \in Tasks : task[t].pc = "idle" \/ task[t].session # s

(* only submissions and the re-fits they scheduled have run, and no fit failed *)
Undisturbed == Disturbances = 0

(* C28: whenever a session is quiescent and no re-fit has failed, fewer  *)
(* than clustering_interval ideas were added since the watermark: a      *)
(* re-fit request dropped because a re-fit was in progress is made up    *)
(* for before the session comes to rest.                                 *)
C28_NoDueRefitLost ==
  \A s \in Sessions :
    (Undisturbed /\ Quiescent(s) /\ IdeaCount(s) >= min_ideas_for_clustering)
      => IdeaCount(s) - last_clustered_idea_count[s] < clustering_interval

(* C29: the force-cluster lock of a session is released whenever a          *)
(* force_cluster request of that session terminates otherwise than by the   *)
(* 409 answer, and a 409 is answered only while another force_cluster of    *)
(* the session is running                                                   *)
ForceRunning(s) == force[s].pc # "idle"
C29_LockReleasedOnTermination ==
  obs.op = "force_cluster" =>
    IF obs.result = "conflict"
      THEN ForceRunning(obs.session)
      ELSE ~_clustering_locks[obs.session]

(* C30: broadcast_to_session never raises to its caller, whatever          *)
(* connections break or are disconnected by their endpoint while it runs  *)
BroadcastRaised == broadcast.pc = "raised"
C30_BroadcastNeverRaises == ~BroadcastRaised

====
